---------------------------- MODULE Spec2Model ----------------------------
(***************************************************************************)
(* Model of setup.py, the packaging descriptor pre-commit installs from   *)
(* the repository root.  The script imports setuptools.setup and calls it *)
(* once with four literal keyword arguments.  The keyword arguments are   *)
(* the Package Metadata Record; the requirement string is read by its     *)
(* PEP 508 syntax (name, then comma-separated operator/version clauses).  *)
(* The build tool (setuptools/pip) and the package index are the          *)
(* environment: the index changes freely, and resolving the requirement   *)
(* either succeeds or raises.                                             *)
(*                                                                         *)
(* Python strings are modelled as tuples of one-character strings so that *)
(* parsing is computed character by character.                            *)
(***************************************************************************)
EXTENDS Naturals, Sequences, FiniteSets

VARIABLES
    pc,          \* where the build tool's run of setup.py stands
    record,      \* keyword arguments bound by the setup(...) call, or NoRecord
    index,       \* versions of the semgrep project the package index offers
    runs,        \* build/install runs started so far
    returned,    \* every record handed to the build tool, oldest first
    constructed, \* records constructed during the current run
    attempts,    \* dependency resolutions attempted during the current run
    error,       \* exception in flight, or NoError
    surfaced     \* exceptions that left setup.py, oldest first

vars == <<pc, record, index, runs, returned, constructed, attempts, error, surfaced>>

\* Number of build/install runs explored.
MaxRuns == 2

NoRecord == [absent |-> TRUE]

NoError == [kind |-> "none"]

---------------------------------------------------------------------------
(* Character classes of a requirement string (PEP 508 / PEP 440).          *)

Digits == {"0", "1", "2", "3", "4", "5", "6", "7", "8", "9"}

Letters ==
    {"a", "b", "c", "d", "e", "f", "g", "h", "i", "j", "k", "l", "m",
     "n", "o", "p", "q", "r", "s", "t", "u", "v", "w", "x", "y", "z"}

Separators == {"-", "_", "."}

NameChars == Letters \cup Digits \cup Separators

OpChars == {"=", "<", ">", "!", "~"}

DigitVal ==
    [c \in Digits |->
        CASE c = "0" -> 0 [] c = "1" -> 1 [] c = "2" -> 2 [] c = "3" -> 3
          [] c = "4" -> 4 [] c = "5" -> 5 [] c = "6" -> 6 [] c = "7" -> 7
          [] c = "8" -> 8 [] c = "9" -> 9]

---------------------------------------------------------------------------
(* The literals of the setup(...) call.                                    *)

\* name="semgrep_pre_commit_package"
PackageName ==
    <<"s", "e", "m", "g", "r", "e", "p", "_", "p", "r", "e", "_",
      "c", "o", "m", "m", "i", "t", "_", "p", "a", "c", "k", "a", "g", "e">>

\* The version read from elsewhere than the literal: one release ahead.
PackageVersion_Bumped == <<"1", ".", "1", "3", ".", "0">>

\* version="1.12.0"
PackageVersion == <<"1", ".", "1", "2", ".", "0">>

\* The pin moved without the version: "semgrep==1.11.0".
InstallRequires_StalePin ==
    << <<"s", "e", "m", "g", "r", "e", "p", "=", "=", "1", ".", "1", "1", ".", "0">> >>

\* A lower bound where the pin stood: "semgrep>=1.12.0".
InstallRequires_Range ==
    << <<"s", "e", "m", "g", "r", "e", "p", ">", "=", "1", ".", "1", "2", ".", "0">> >>

\* The wrapper named as its own requirement: "semgrep-pre-commit-package==1.12.0".
InstallRequires_Self ==
    << <<"s", "e", "m", "g", "r", "e", "p", "-", "p", "r", "e", "-",
         "c", "o", "m", "m", "i", "t", "-", "p", "a", "c", "k", "a", "g", "e",
         "=", "=", "1", ".", "1", "2", ".", "0">> >>

\* install_requires=["semgrep==1.12.0"]
InstallRequires ==
    << <<"s", "e", "m", "g", "r", "e", "p", "=", "=", "1", ".", "1", "2", ".", "0">> >>

\* A package listed for distribution: packages=["semgrep"].
Packages_NonEmpty == << <<"s", "e", "m", "g", "r", "e", "p">> >>

\* packages=[]
Packages == << >>

\* The version taken from the newest release on the index instead of the literal.
SetupKwargs_FromIndex ==
    [name             |-> PackageName,
     version          |-> IF <<"1", ".", "1", "3", ".", "0">> \in index
                          THEN <<"1", ".", "1", "3", ".", "0">>
                          ELSE PackageVersion,
     install_requires |-> InstallRequires,
     packages         |-> Packages]

\* The keyword arguments the call binds: the Package Metadata Record.
SetupKwargs ==
    [name             |-> PackageName,
     version          |-> PackageVersion,
     install_requires |-> InstallRequires,
     packages         |-> Packages]

---------------------------------------------------------------------------
(* Reading a requirement string.                                           *)

RECURSIVE TakeWhile(_, _)
\* Longest prefix of s whose characters all lie in S.
TakeWhile(s, S) ==
    IF s = << >> \/ Head(s) \notin S
    THEN << >>
    ELSE <<Head(s)>> \o TakeWhile(Tail(s), S)

Drop(s, n) == SubSeq(s, n + 1, Len(s))

RECURSIVE UpTo(_, _)
\* Prefix of s before the first occurrence of the character sep.
UpTo(s, sep) ==
    IF s = << >> \/ Head(s) = sep
    THEN << >>
    ELSE <<Head(s)>> \o UpTo(Tail(s), sep)

RECURSIVE Split(_, _)
\* s cut at every occurrence of the character sep; an empty s gives no piece.
Split(s, sep) ==
    LET piece == UpTo(s, sep)
    IN  IF s = << >>
        THEN << >>
        ELSE IF Len(piece) = Len(s)
             THEN <<piece>>
             ELSE IF Len(piece) + 1 = Len(s)
                  THEN <<piece, << >> >>
                  ELSE <<piece>> \o Split(Drop(s, Len(piece) + 1), sep)

\* One clause "==1.12.0": the operator, then the version.
ParseClause(c) ==
    LET op == TakeWhile(c, OpChars)
    IN  [op |-> op, version |-> Drop(c, Len(op))]

\* "semgrep==1.12.0" read as a project name and its version clauses.
ParseRequirement(s) ==
    LET name    == TakeWhile(s, NameChars)
        clauses == Split(Drop(s, Len(name)), ",")
    IN  [name  |-> name,
         specs |-> [i \in 1..Len(clauses) |-> ParseClause(clauses[i])]]

\* The record's dependency entries, one per requirement string.
Dependencies(rec) ==
    [i \in 1..Len(rec.install_requires) |-> ParseRequirement(rec.install_requires[i])]

RECURSIVE Normalize(_)
\* Project names compare with every run of "-", "_", "." read as one "-".
Normalize(s) ==
    IF s = << >>
    THEN << >>
    ELSE IF Head(s) \in Separators
         THEN <<"-">> \o Normalize(Drop(s, Len(TakeWhile(s, Separators))))
         ELSE <<Head(s)>> \o Normalize(Tail(s))

---------------------------------------------------------------------------
(* The build tool's dependency resolution against the package index.       *)

RECURSIVE ToNat(_)
\* A run of decimal digits as a number.
ToNat(s) ==
    IF s = << >>
    THEN 0
    ELSE 10 * ToNat(SubSeq(s, 1, Len(s) - 1)) + DigitVal[s[Len(s)]]

IsRelease(v) ==
    /\ v # << >>
    /\ \A i \in 1..Len(v) : v[i] \in Digits \cup {"."}
    /\ \A i \in 1..Len(Split(v, ".")) : Split(v, ".")[i] # << >>

\* "1.12.0" as <<1, 12, 0>>.
Release(v) ==
    LET parts == Split(v, ".")
    IN  [i \in 1..Len(parts) |-> ToNat(parts[i])]

\* Component i of a release, padded with zeros.
Seg(r, i) == IF i <= Len(r) THEN r[i] ELSE 0

MaxLen(a, b) == IF Len(a) >= Len(b) THEN Len(a) ELSE Len(b)

ReleaseEq(a, b) == \A i \in 1..MaxLen(a, b) : Seg(a, i) = Seg(b, i)

ReleaseLess(a, b) ==
    \E i \in 1..MaxLen(a, b) :
        /\ Seg(a, i) < Seg(b, i)
        /\ \A j \in 1..(i - 1) : Seg(a, j) = Seg(b, j)

IsWildcard(v) ==
    /\ Len(v) >= 3
    /\ SubSeq(v, Len(v) - 1, Len(v)) = <<".", "*">>
    /\ IsRelease(SubSeq(v, 1, Len(v) - 2))

\* Whether candidate version v (a release) satisfies one clause.
Matches(v, spec) ==
    LET r == Release(v)
    IN  IF IsWildcard(spec.version)
        THEN LET p == Release(SubSeq(spec.version, 1, Len(spec.version) - 2))
                 hit == Len(r) >= Len(p) /\ \A i \in 1..Len(p) : r[i] = p[i]
             IN  CASE spec.op = <<"=", "=">> -> hit
                   [] spec.op = <<"!", "=">> -> ~hit
                   [] OTHER -> FALSE
        ELSE IF ~IsRelease(spec.version)
        THEN FALSE
        ELSE LET w == Release(spec.version)
             IN  CASE spec.op = <<"=", "=">>      -> ReleaseEq(r, w)
                   [] spec.op = <<"=", "=", "=">> -> v = spec.version
                   [] spec.op = <<"!", "=">>      -> ~ReleaseEq(r, w)
                   [] spec.op = <<"<", "=">>      -> ReleaseLess(r, w) \/ ReleaseEq(r, w)
                   [] spec.op = <<">", "=">>      -> ReleaseLess(w, r) \/ ReleaseEq(r, w)
                   [] spec.op = <<"<">>           -> ReleaseLess(r, w)
                   [] spec.op = <<">">>           -> ReleaseLess(w, r)
                   [] spec.op = <<"~", "=">>      ->
                        /\ Len(w) >= 2
                        /\ ReleaseLess(w, r) \/ ReleaseEq(r, w)
                        /\ \A i \in 1..(Len(w) - 1) : Seg(r, i) = w[i]
                   [] OTHER -> FALSE

\* The one project the index of this model serves.
Semgrep == <<"s", "e", "m", "g", "r", "e", "p">>

\* Versions of it that may be on the index.
KnownVersions ==
    { <<"1", ".", "1", "1", ".", "0">>,
      <<"1", ".", "1", "2", ".", "0">>,
      <<"1", ".", "1", "3", ".", "0">> }

\* Versions on offer for a project name.
Available(idx, name) == IF Normalize(name) = Normalize(Semgrep) THEN idx ELSE {}

\* Versions that satisfy every clause of a requirement.
Candidates(idx, req) ==
    { v \in Available(idx, req.name) : \A i \in 1..Len(req.specs) : Matches(v, req.specs[i]) }

\* Whether every requirement of the record can be met from the index.
Resolvable(idx, rec) ==
    \A i \in 1..Len(rec.install_requires) :
        Candidates(idx, Dependencies(rec)[i]) # {}

\* The first requirement string the index cannot meet.
FirstUnmet(idx, rec) ==
    LET bad == { i \in 1..Len(rec.install_requires) :
                     Candidates(idx, Dependencies(rec)[i]) = {} }
    IN  rec.install_requires[CHOOSE i \in bad : \A j \in bad : i <= j]

ResolutionFailure(idx, rec) ==
    [kind |-> "ResolutionImpossible", requirement |-> FirstUnmet(idx, rec)]

---------------------------------------------------------------------------
(* The run of setup.py by the build tool.                                  *)

Init ==
    /\ pc = "idle"
    /\ record = NoRecord
    /\ index \in SUBSET KnownVersions
    /\ runs = 0
    /\ returned = << >>
    /\ constructed = 0
    /\ attempts = 0
    /\ error = NoError
    /\ surfaced = << >>

\* The build tool starts executing setup.py (lines 1-4: comments, __future__).
StartRun ==
    /\ pc = "idle"
    /\ runs < MaxRuns
    /\ pc' = "import"
    /\ runs' = runs + 1
    /\ constructed' = 0
    /\ attempts' = 0
    /\ error' = NoError
    /\ UNCHANGED <<record, index, returned, surfaced>>

\* Line 6: from setuptools import setup.
ImportSetup ==
    /\ pc = "import"
    /\ pc' = "call"
    /\ UNCHANGED <<record, index, runs, returned, constructed, attempts, error, surfaced>>

\* Lines 8-13: the call binds the literal keyword arguments and enters setup().
CallSetup ==
    /\ pc = "call"
    /\ record' = SetupKwargs
    /\ returned' = Append(returned, SetupKwargs)
    /\ constructed' = constructed + 1
    /\ pc' = "in_setup"
    /\ UNCHANGED <<index, runs, attempts, error, surfaced>>

\* Inside setup(): the build tool resolves the record's requirements.
ResolveOk ==
    /\ pc = "in_setup"
    /\ Resolvable(index, record)
    /\ attempts' = attempts + 1
    /\ pc' = "built"
    /\ UNCHANGED <<record, index, runs, returned, constructed, error, surfaced>>

\* Inside setup(): a requirement cannot be met and the build tool raises.
ResolveFail ==
    /\ pc = "in_setup"
    /\ ~Resolvable(index, record)
    /\ attempts' = attempts + 1
    /\ error' = ResolutionFailure(index, record)
    /\ pc' = "raised"
    /\ UNCHANGED <<record, index, runs, returned, constructed, surfaced>>

\* The record kept alive after the script ended (a module-level reference).
Return_KeepsRecord ==
    /\ pc = "built"
    /\ pc' = "idle"
    /\ UNCHANGED <<record, index, runs, returned, constructed, attempts, error, surfaced>>

\* Line 13: setup() returns, the script ends and its objects are dropped.
Return ==
    /\ pc = "built"
    /\ record' = NoRecord
    /\ pc' = "idle"
    /\ UNCHANGED <<index, runs, returned, constructed, attempts, error, surfaced>>

\* The call wrapped in try/except that swallows the exception and calls again.
Propagate_Retry ==
    /\ pc = "raised"
    /\ error' = NoError
    /\ pc' = "in_setup"
    /\ UNCHANGED <<record, index, runs, returned, constructed, attempts, surfaced>>

\* Lines 8-13 stand in no try block: the exception leaves the script as raised.
Propagate ==
    /\ pc = "raised"
    /\ surfaced' = Append(surfaced, error)
    /\ record' = NoRecord
    /\ pc' = "idle"
    /\ UNCHANGED <<index, runs, returned, constructed, attempts, error>>

\* The index gains a version.
Publish ==
    \E v \in KnownVersions \ index :
        /\ index' = index \cup {v}
        /\ UNCHANGED <<pc, record, runs, returned, constructed, attempts, error, surfaced>>

\* The index loses a version.
Yank ==
    \E v \in index :
        /\ index' = index \ {v}
        /\ UNCHANGED <<pc, record, runs, returned, constructed, attempts, error, surfaced>>

Next ==
    \/ StartRun
    \/ ImportSetup
    \/ CallSetup
    \/ ResolveOk
    \/ ResolveFail
    \/ Return
    \/ Propagate
    \/ Publish
    \/ Yank

Spec == Init /\ [][Next]_vars

---------------------------------------------------------------------------
(* Properties.                                                              *)

RecordExists == record # NoRecord

\* C1: whenever the record exists, its version string equals the version
\* string pinned in its first dependency entry.
C1_CoVersioning ==
    RecordExists =>
        LET deps == Dependencies(record)
        IN  /\ Len(deps) >= 1
            /\ Len(deps[1].specs) >= 1
            /\ record.version = deps[1].specs[1].version

C1_Witness == RecordExists /\ pc = "in_setup" /\ attempts = 0

\* C2: the record is named "semgrep_pre_commit_package", has version "1.12.0",
\* and its dependency entry is exactly ("semgrep", "1.12.0").
C2_ExactValues ==
    RecordExists =>
        LET deps == Dependencies(record)
        IN  /\ record.name =
                  <<"s", "e", "m", "g", "r", "e", "p", "_", "p", "r", "e", "_",
                    "c", "o", "m", "m", "i", "t", "_", "p", "a", "c", "k", "a", "g", "e">>
            /\ record.version = <<"1", ".", "1", "2", ".", "0">>
            /\ Len(deps) = 1
            /\ deps[1].name = <<"s", "e", "m", "g", "r", "e", "p">>
            /\ Len(deps[1].specs) = 1
            /\ deps[1].specs[1].version = <<"1", ".", "1", "2", ".", "0">>

C2_Witness == RecordExists /\ pc = "built"

\* C3: whenever the record exists, its set of packages to distribute is empty.
C3_NoContents ==
    RecordExists => { record.packages[i] : i \in 1..Len(record.packages) } = {}

C3_Witness == RecordExists /\ pc = "raised"

\* C4: every invocation hands the build tool the same record, whatever the
\* earlier invocations did and whatever the index held at the time.
C4_Idempotent ==
    \A i \in 1..Len(returned) : \A j \in 1..Len(returned) : returned[i] = returned[j]

C4_Witness ==
    /\ Len(returned) >= 2
    /\ Len(surfaced) = 1
    /\ pc = "built"
    /\ <<"1", ".", "1", "3", ".", "0">> \in index

\* C6: the record has exactly one dependency entry, and that entry is one
\* "==" clause on semgrep with a full version (no wildcard, no second clause),
\* so at most one version can ever satisfy it.
C6_SingleExactPin ==
    RecordExists =>
        LET deps == Dependencies(record)
        IN  /\ Len(deps) = 1
            /\ Normalize(deps[1].name) = <<"s", "e", "m", "g", "r", "e", "p">>
            /\ Len(deps[1].specs) = 1
            /\ deps[1].specs[1].op = <<"=", "=">>
            /\ IsRelease(deps[1].specs[1].version)
            /\ Cardinality(Candidates(KnownVersions, deps[1])) <= 1

C6_Witness == RecordExists /\ runs >= 2 /\ Cardinality(index) = 3

\* C7: in one run the record is constructed once, no step changes it while it
\* exists, it is dropped only once resolution has finished (built or raised),
\* and no record is left when no run is in progress.
C7_Lifecycle ==
    /\ [](/\ constructed <= 1
          /\ RecordExists <=> pc \in {"in_setup", "built", "raised"}
          /\ RecordExists => constructed = 1)
    /\ [][RecordExists /\ record' # NoRecord => record' = record]_vars
    /\ [][RecordExists /\ record' = NoRecord =>
              pc \in {"built", "raised"} /\ attempts = 1]_vars

C7_Witness == pc = "idle" /\ runs >= 2 /\ Len(returned) >= 2 /\ ~RecordExists

\* C8: constructing the record cannot fail; an error arises only when the
\* pinned version is not on the index, resolution is attempted once per run,
\* the record is untouched by the failure, and the error leaves the script
\* once and unchanged.
C8_FailureSurfacedVerbatim ==
    /\ [](/\ attempts <= 1
          /\ pc \in {"import", "call", "in_setup", "built"} => error = NoError
          /\ Len(surfaced) <= runs
          /\ pc = "raised" =>
                /\ error.kind = "ResolutionImpossible"
                /\ error.requirement = record.install_requires[1]
                /\ record = returned[Len(returned)])
    /\ [][pc = "call" /\ pc' # "call" => pc' = "in_setup" /\ record' # NoRecord]_vars
    /\ [][pc # "raised" /\ pc' = "raised" =>
              /\ Dependencies(record)[1].specs[1].version \notin index
              /\ record' = record]_vars
    /\ [][pc = "raised" /\ pc' # "raised" =>
              pc' = "idle" /\ surfaced' = Append(surfaced, error)]_vars

C8_Witness ==
    /\ pc = "idle"
    /\ surfaced # << >>
    /\ surfaced[Len(surfaced)] = error
    /\ error.kind = "ResolutionImpossible"

\* C9: no dependency entry names the record's own project, names compared
\* as the index compares them.
C9_NoSelfDependency ==
    RecordExists =>
        \A i \in 1..Len(record.install_requires) :
            Normalize(Dependencies(record)[i].name) # Normalize(record.name)

C9_Witness == RecordExists /\ index = {} /\ runs = 1

=============================================================================
